---- MODULE Spec2Model ----
(***************************************************************************)
(* Model of github_dump_to_markdown.py: the paginated aggregation of a     *)
(* discussion / issue / pull request / commit history over the GraphQL     *)
(* API (fetch_github_data), the markdown renderers, the filename           *)
(* sanitizer, the argument handling and the per-item driver loop of main().*)
(*                                                                         *)
(* Strings that the program inspects character by character (titles) are   *)
(* sequences of one-character strings.  Python's None is None where a       *)
(* string stands, Null where an object stands and NoCursor where a cursor  *)
(* stands.                                                                 *)
(***************************************************************************)
EXTENDS Integers, Sequences, FiniteSets, TLC

VARIABLES
  \* ---- driver (main) ----
  dumptype,         \* args.dumptype
  numbers,          \* the flattened list of requested numbers
  i,                \* position of the for loop in numbers (0 before the first item)
  pc,               \* where the single task stands
  fetch_processed,  \* main's tally of successes
  fetch_failed,     \* main's tally of failures
  files,            \* the output directory: set of [name, by, doc]
  \* ---- one call of fetch_github_data ----
  variables,        \* the GraphQL variables of the next POST (the cursors)
  comments_data,    \* the accumulator of the while loop
  header,           \* result_title / result_state captured from the first page
  query_result,     \* what fetch_github_data returned (None for absence)
  document,         \* the headings of the document rendered last
  \* ---- the API side and observation ----
  resource,         \* what the repository holds for the item being fetched
  requests,         \* the POSTs issued for the current item, in order
  pages,            \* the responses received for the current item, in order
  attempts,         \* the items whose first POST was issued, in order
  outcomes,         \* per attempted item: "written", "absent" or "error"
  \* ---- the sanitizer exercised on its own ----
  san_pc, san_in, san_first, san_once, san_twice,
  \* ---- the command line (main, before the session is opened) ----
  argv,             \* the namespace parse_args returned
  args,             \* the namespace as main goes on assigning to it
  arg_pc            \* where the argument handling stands

vars == <<dumptype, numbers, i, pc, fetch_processed, fetch_failed, files,
          variables, comments_data, header, query_result, document,
          resource, requests, pages, attempts, outcomes,
          san_pc, san_in, san_first, san_once, san_twice,
          argv, args, arg_pc>>

drivervars == <<dumptype, numbers, i, pc, fetch_processed, fetch_failed, files,
                variables, comments_data, header, query_result, document,
                resource, requests, pages, attempts, outcomes>>

sanvars == <<san_pc, san_in, san_first, san_once, san_twice>>

argvars == <<argv, args, arg_pc>>

None == "None_"

Null == [null |-> TRUE]

\* a cursor is opaque to the program: <<n>> stands after the n-th element
NoCursor == <<>>

Cursor(n) == <<n>>

-----------------------------------------------------------------------------
(* Bounds of the model *)

\* max_length of sanitize_filename is 120 in the source; the model scales it.
max_length == 4
\* "first: 100" of the queries (comments, replies, history), scaled
PageSize == 2
\* the longest list of requested numbers
MaxItems == 2
\* the most comments a thread item holds on the server
MaxComments == 3
\* the most commits a branch holds on the server
MaxCommits == 3

-----------------------------------------------------------------------------
(* Generic helpers *)

Max(S) == CHOOSE x \in S : \A y \in S : y <= x

Range(s) == {s[k] : k \in 1..Len(s)}

SeqsUpTo(S, n) == UNION {[1..k -> S] : k \in 0..n}

-----------------------------------------------------------------------------
(* sanitize_filename / create_filename *)

\* the characters the model's titles are made of: a word character, the three
\* separators, a character outside the safe set and the line break
Chars == {"a", " ", "_", "-", "#", "\n"}

Separators == {" ", "_", "-"}

\* the complement of the class [^\w\-_. ] restricted to Chars
SafeChars == {"a", ".", "_", "-", " "}

\* re.sub(r'[^\w\-_. ]', '_', filename)
re_sub(filename) ==
  [k \in 1..Len(filename) |-> IF filename[k] \in SafeChars THEN filename[k] ELSE "_"]

\* str.rfind with a one-character needle: 0-based index of the last
\* occurrence, -1 when there is none
rfind(s, c) ==
  LET at == {k \in 1..Len(s) : s[k] = c}
  IN  IF at = {} THEN -1 ELSE Max(at) - 1

\* str.rstrip("_- ")
RECURSIVE rstrip(_)
rstrip(s) ==
  IF s = <<>> THEN s
  ELSE IF s[Len(s)] \in Separators THEN rstrip(SubSeq(s, 1, Len(s) - 1))
  ELSE s

Min(S) == CHOOSE x \in S : \A y \in S : x <= y

\* filename[:max_length] (a slice stops at the end of the string)
truncate(filename) == SubSeq(filename, 1, Min({max_length, Len(filename)}))

\* the backtracking of sanitize_filename, applied to truncated
backtrack_mut(truncated) ==
  LET last_space == Max({rfind(truncated, " "), rfind(truncated, "_"),
                         rfind(truncated, "-")})
  IN  IF last_space > 0
      THEN SubSeq(truncated, 1, last_space)
      ELSE truncated

backtrack(truncated) ==
  LET last_space == Max({rfind(truncated, " "), rfind(truncated, "_"),
                         rfind(truncated, "-")})
  IN  IF last_space > 0
      THEN rstrip(SubSeq(truncated, 1, last_space))
      ELSE truncated

sanitize_filename_mut(filename) == backtrack(truncate(re_sub(filename)))

sanitize_filename(filename) ==
  LET replaced == re_sub(filename)
  IN  IF Len(replaced) <= max_length
      THEN replaced
      ELSE backtrack(truncate(replaced))

\* title.split('\n')[0]
first_line(title) ==
  LET brk == {k \in 1..Len(title) : title[k] = "\n"}
  IN  IF brk = {} THEN title
      ELSE SubSeq(title, 1, (CHOOSE k \in brk : \A m \in brk : k <= m) - 1)

\* f"{dumptype}{number:03}_" + sanitize_filename(first line of title)
create_filename_mut(dt, number, title) ==
  <<dt, 0, sanitize_filename(first_line(title))>>

create_filename(dt, number, title) ==
  <<dt, number, sanitize_filename(first_line(title))>>


-----------------------------------------------------------------------------
(* The API side: what the repository holds and the page a query returns *)

ThreadKinds == {"discussion", "issue", "pullRequest"}

DumpTypes == ThreadKinds \cup {"commits", "commit"}

NumberPool == {1, 2}

\* the lists of requested numbers, up to renaming of the numbers: the first
\* number is 1, and 2 appears only after 1 (a repeated number is a list the
\* user can pass: --numbers 1 1, or --numbers 1 with a URL that ends in /1)
NumberLists ==
  {s \in SeqsUpTo(NumberPool, MaxItems) : s # <<>> => s[1] = 1}

Titles == {<<"a">>, <<"a", "#", "a", "a", " ", "a">>}

TimePool == {1, 2, 3}

\* How the API presents the author of a record: "ghost" is a null author
\* object, "anon" an author object whose login (name, for a commit) is null,
\* "user" an author object with a login.  The authors of one item are laid out
\* by a pattern: the record at position p has the kind AuthorKind(pattern, p).
PlainAuthors == {<<"user">>}

AuthorPatterns ==
  {<<"ghost", "anon", "user">>, <<"anon", "user", "ghost">>,
   <<"user", "ghost", "anon">>}

AuthorKind(pattern, p) == pattern[(p % Len(pattern)) + 1]

\* author { login }
Actor(kind) ==
  IF kind = "ghost" THEN Null
  ELSE [login |-> IF kind = "anon" THEN None ELSE "u"]

\* author { name }
GitActor(kind) ==
  IF kind = "ghost" THEN Null
  ELSE [name |-> IF kind = "anon" THEN None ELSE "u"]

\* a comment on the server: a node the API resolves to null, or a comment with
\* no reply, a full page of replies, or one reply more than a page holds
ReplyCounts == {0, PageSize, PageSize + 1}

CommentNodes == {Null} \cup [replies : ReplyCounts, nullReply : {FALSE}]

\* the same, and a comment whose first reply node the API resolves to null
AllCommentNodes ==
  CommentNodes \cup [replies : {PageSize}, nullReply : {TRUE}]

\* What the repository holds for a thread item.  edited: the item is edited
\* while it is being fetched, so that the pages after the first carry other
\* header fields.
ThreadResources ==
  [title : Titles, comments : SeqsUpTo(CommentNodes, MaxComments),
   authors : PlainAuthors, edited : {FALSE}]

AllThreadResources ==
  [title : Titles, comments : SeqsUpTo(AllCommentNodes, MaxComments),
   authors : AuthorPatterns, edited : BOOLEAN]

\* a branch on the server: the committed timestamps of its commits, in the
\* order the history connection returns them
CommitsResources == [commits : SeqsUpTo(TimePool, MaxCommits), authors : PlainAuthors]

AllCommitsResources ==
  [commits : SeqsUpTo(TimePool, MaxCommits), authors : AuthorPatterns]

CommitResources == [committedDate : TimePool, authors : PlainAuthors]

AllCommitResources == [committedDate : TimePool, authors : AuthorPatterns]

\* replies(first: 100, after: $repliesCursor) of comment c; the program never
\* sets $repliesCursor, so this is always the first page of replies
RepliesPage(res, c) ==
  LET r == res.comments[c].replies
  IN  [totalCount |-> r,
       pageInfo |-> [hasNextPage |-> r > PageSize,
                     endCursor |-> IF r = 0 THEN NoCursor ELSE Cursor(Min({r, PageSize}))],
       nodes |-> [j \in 1..Min({r, PageSize}) |->
                    IF j = 1 /\ res.comments[c].nullReply THEN Null
                    ELSE [id |-> <<c, j>>,
                          author |-> Actor(AuthorKind(res.authors, c + j))]]]

\* the scalar fields of the item as a page carries them: rev is 1 before the
\* item is edited and 2 after it
ThreadFields(res, dt, rev) ==
  [url |-> <<"url", rev>>,
   state |-> IF dt = "discussion" THEN None
             ELSE IF rev = 1 THEN "OPEN" ELSE "CLOSED",
   title |-> IF rev = 1 THEN res.title ELSE <<"#">> \o res.title,
   body |-> <<"body", rev>>,
   author |-> Actor(AuthorKind(res.authors, rev - 1)),
   createdAt |-> rev]

\* comments(first: 100, after: $commentsCursor); a cursor is the number of
\* comments that precede the next page
CommentsPage(res, dt, cursor) ==
  LET from == IF cursor = NoCursor THEN 0 ELSE cursor[1]
      upto == Min({from + PageSize, Len(res.comments)})
      rev == IF res.edited /\ cursor # NoCursor THEN 2 ELSE 1
  IN  [fields |-> ThreadFields(res, dt, rev),
       comments |->
         [totalCount |-> Len(res.comments),
          pageInfo |-> [hasNextPage |-> upto < Len(res.comments),
                        endCursor |-> IF upto = from THEN NoCursor ELSE Cursor(upto)],
          nodes |-> [k \in 1..(upto - from) |->
                       IF res.comments[from + k] = Null THEN Null
                       ELSE [id |-> <<from + k>>,
                             author |-> Actor(AuthorKind(res.authors, from + k)),
                             replies |-> RepliesPage(res, from + k)]]]]

\* history(first: 100, after: $historyCursor)
HistoryPage(res, cursor) ==
  LET from == IF cursor = NoCursor THEN 0 ELSE cursor[1]
      upto == Min({from + PageSize, Len(res.commits)})
  IN  [pageInfo |-> [hasNextPage |-> upto < Len(res.commits),
                     endCursor |-> IF upto = from THEN NoCursor ELSE Cursor(upto)],
       edges |-> [k \in 1..(upto - from) |->
                    [oid |-> from + k, committedDate |-> res.commits[from + k],
                     author |-> GitActor(AuthorKind(res.authors, from + k))]]]

\* object(oid: $sha)
CommitObject(res, sha) ==
  [oid |-> sha, committedDate |-> res.committedDate,
   author |-> GitActor(AuthorKind(res.authors, 0))]

\* The shapes a response can take.  Raise: session.post or response.json
\* raises.  Otherwise the parsed body: whether "errors" is non-empty, and
\* "data": missing altogether (NoData), present without the resource path
\* (NoPath), or the page.
Raise == [raise |-> TRUE]
NoData == [nodata |-> TRUE]
NoPath == [nopath |-> TRUE]

Modes == {"ok", "nopath", "nodata", "errors", "errors_data", "exception"}

FailureModes == Modes \ {"ok"}

Response(mode, page) ==
  CASE mode = "ok"          -> [errors |-> FALSE, data |-> page]
    [] mode = "nopath"      -> [errors |-> FALSE, data |-> NoPath]
    [] mode = "nodata"      -> [errors |-> FALSE, data |-> NoData]
    [] mode = "errors"      -> [errors |-> TRUE,  data |-> NoPath]
    [] mode = "errors_data" -> [errors |-> TRUE,  data |-> page]
    [] mode = "exception"   -> Raise

HasPath(result) == result.data \notin {NoData, NoPath}

-----------------------------------------------------------------------------
(* fetch_github_data: the parts between two awaits *)

\* the variables dict before the first POST
initial_variables(id) ==
  [id |-> id, commentsCursor |-> NoCursor, repliesCursor |-> NoCursor,
   historyCursor |-> NoCursor]

\* Whether the thread branch gives up on this response and returns None:
\* the POST or the parse raised; on the first response the "errors" check and
\* the path check; on a later response the subscripts
\* result["data"]["repository"][dumptype]["comments"] raise when the path is
\* not there (no "errors" check is made on a later response).
thread_gives_up(result, first) ==
  \/ result = Raise
  \/ result # Raise /\ first /\ result.errors
  \/ result # Raise /\ ~HasPath(result)

\* Whether the commits branch gives up on this response: the POST or the parse
\* raised, "errors" is non-empty (checked after every POST), or repository.ref
\* is missing.
commits_gives_up(result) ==
  \/ result = Raise
  \/ result # Raise /\ result.errors
  \/ result # Raise /\ ~HasPath(result)

\* x["author"]["login"] if x["author"] else "None"
author_login(author) == IF author # Null THEN author.login ELSE "None"

\* x["author"]["name"] if x["author"] else "None"
author_name(author) == IF author # Null THEN author.name ELSE "None"

\* Reply(id=reply["id"], ..., author=...)
build_reply(reply) == [id |-> reply.id, author |-> author_login(reply.author)]

\* the replies collected for one comment node
build_replies_mut(dt, comment) ==
  [j \in 1..Len(comment.replies.nodes) |-> build_reply(comment.replies.nodes[j])]

build_replies(dt, comment) ==
  IF dt = "discussion"
  THEN [j \in 1..Len(comment.replies.nodes) |-> build_reply(comment.replies.nodes[j])]
  ELSE <<>>

\* Comment(id=..., author=..., replies=replies)
build_comment(dt, comment) ==
  [id |-> comment.id, author |-> author_login(comment.author),
   replies |-> build_replies(dt, comment)]

\* Whether the for loop over the nodes of one page raises: reply["id"] on a
\* reply node that is null (the replies are visited for a discussion only, and
\* only under a comment node that is not null)
page_raises_mut(dt, nodes) ==
  \/ \E k \in 1..Len(nodes) : nodes[k] = Null
  \/ /\ dt = "discussion"
     /\ \E k \in 1..Len(nodes) :
          /\ nodes[k] # Null
          /\ \E j \in 1..Len(nodes[k].replies.nodes) : nodes[k].replies.nodes[j] = Null

page_raises(dt, nodes) ==
  /\ dt = "discussion"
  /\ \E k \in 1..Len(nodes) :
       /\ nodes[k] # Null
       /\ \E j \in 1..Len(nodes[k].replies.nodes) : nodes[k].replies.nodes[j] = Null

\* the for loop over the nodes of one page, appending to comments_data
RECURSIVE append_page_mut(_, _, _)
append_page_mut(data, dt, nodes) ==
  IF Len(nodes) <= 1 THEN data
  ELSE IF Head(nodes) = Null
       THEN append_page_mut(data, dt, Tail(nodes))
       ELSE append_page_mut(Append(data, build_comment(dt, Head(nodes))), dt, Tail(nodes))

RECURSIVE append_page(_, _, _)
append_page(data, dt, nodes) ==
  IF nodes = <<>> THEN data
  ELSE IF Head(nodes) = Null
       THEN append_page(data, dt, Tail(nodes))
       ELSE append_page(Append(data, build_comment(dt, Head(nodes))), dt, Tail(nodes))

\* result_url, result_state, result_title, result_body, result_author and
\* result_created_at: assigned from the first response, before the while loop,
\* and never assigned again
capture_header_mut(first, dt, fields, captured) ==
  [url |-> fields.url,
   state |-> IF dt # "discussion" THEN fields.state ELSE "",
   title |-> fields.title,
   body |-> fields.body,
   author |-> author_login(fields.author),
   created_at |-> fields.createdAt]

capture_header(first, dt, fields, captured) ==
  IF first
  THEN [url |-> fields.url,
        state |-> IF dt # "discussion" THEN fields.state ELSE "",
        title |-> fields.title,
        body |-> fields.body,
        author |-> author_login(fields.author),
        created_at |-> fields.createdAt]
  ELSE captured

\* the CommitQueryResult list of one page of history edges
RECURSIVE append_edges(_, _)
append_edges(data, edges) ==
  IF edges = <<>> THEN data
  ELSE append_edges(Append(data, [oid |-> Head(edges).oid,
                                  committedDate |-> Head(edges).committedDate,
                                  author |-> author_name(Head(edges).author)]),
                    Tail(edges))

\* what a response is remembered as: its shape and, when it carries a page,
\* the size of the page and its pageInfo
PageSeen(mode, nodes, pageInfo) ==
  [mode |-> mode,
   count |-> IF mode \in {"ok", "errors_data"} THEN Len(nodes) ELSE 0,
   nulls |-> IF mode \in {"ok", "errors_data"}
             THEN Cardinality({k \in 1..Len(nodes) : nodes[k] = Null}) ELSE 0,
   totalCount |-> IF mode \in {"ok", "errors_data"} THEN pageInfo.totalCount ELSE 0,
   hasNextPage |-> IF mode \in {"ok", "errors_data"} THEN pageInfo.hasNextPage ELSE FALSE,
   endCursor |-> IF mode \in {"ok", "errors_data"} THEN pageInfo.endCursor ELSE NoCursor]

-----------------------------------------------------------------------------
(* The renderers *)

Heading(h, n, id) == [h |-> h, n |-> n, id |-> id]

\* the headings of the replies of one comment: Reply j+1 for enumerate index j
reply_headings(replies) ==
  [j \in 1..Len(replies) |-> Heading("Reply", j, replies[j].id)]

\* one comment's block: its heading, its replies when there are any, the rule
comment_block_mut(k, comment) ==
  <<Heading("Comment", k - 1, comment.id)>>
    \o (IF comment.replies # <<>> THEN reply_headings(comment.replies) ELSE <<>>)
    \o <<Heading("rule", 0, <<>>)>>

comment_block(k, comment) ==
  <<Heading("Comment", k, comment.id)>>
    \o (IF comment.replies # <<>> THEN reply_headings(comment.replies) ELSE <<>>)
    \o <<Heading("rule", 0, <<>>)>>

RECURSIVE comment_blocks(_, _)
comment_blocks(comments, k) ==
  IF k > Len(comments) THEN <<>>
  ELSE comment_block(k, comments[k]) \o comment_blocks(comments, k + 1)

\* markdown_content of output_markdown
thread_document(qr) ==
  <<[h |-> "Title", n |-> 0, id |-> <<>>, title |-> qr.title, url |-> qr.url,
     author |-> qr.author, created_at |-> qr.created_at, state |-> qr.state,
     body |-> qr.body],
    Heading("rule", 0, <<>>)>>
    \o comment_blocks(qr.comments, 1)

\* list.sort(key=committedDate, reverse=True): stable, equal keys keep their order
RECURSIVE insert_desc(_, _)
insert_desc(sorted, c) ==
  IF sorted = <<>> THEN <<c>>
  ELSE IF Head(sorted).committedDate >= c.committedDate
       THEN <<Head(sorted)>> \o insert_desc(Tail(sorted), c)
       ELSE <<c>> \o sorted

RECURSIVE sort_desc(_)
sort_desc(commits) ==
  IF commits = <<>> THEN <<>>
  ELSE insert_desc(sort_desc(SubSeq(commits, 1, Len(commits) - 1)),
                   commits[Len(commits)])

\* the "## Commit <counter>: <oid>" headings: the counter starts at the length
\* and is decremented after every commit
commit_headings_mut(sorted) ==
  [k \in 1..Len(sorted) |->
     [h |-> "Commit", n |-> k, id |-> <<sorted[k].oid>>,
      date |-> sorted[k].committedDate]]

commit_headings(sorted) ==
  [k \in 1..Len(sorted) |->
     [h |-> "Commit", n |-> Len(sorted) - (k - 1), id |-> <<sorted[k].oid>>,
      date |-> sorted[k].committedDate]]

\* markdown_path.write_text: the file of that name is created or replaced
write_text(dir, name, by) ==
  {f \in dir : f.name # name} \cup {[name |-> name, by |-> by]}

-----------------------------------------------------------------------------
(* main: the driver loop, with fetch_github_data running inside it *)

SanIdle ==
  /\ san_pc = "idle" /\ san_in = None /\ san_first = None
  /\ san_once = None /\ san_twice = None

ArgIdle == argv = Null /\ args = Null /\ arg_pc = "idle"

Init ==
  /\ dumptype \in DumpTypes
  /\ numbers \in (IF dumptype \in ThreadKinds
                  THEN NumberLists ELSE {<<>>})
  /\ i = 0 /\ pc = "loop"
  /\ fetch_processed = 0 /\ fetch_failed = 0 /\ files = {}
  /\ variables = Null /\ comments_data = <<>> /\ header = Null
  /\ query_result = Null /\ document = <<>>
  /\ resource = Null /\ requests = <<>> /\ pages = <<>>
  /\ attempts = <<>> /\ outcomes = <<>>
  /\ SanIdle
  /\ ArgIdle

\* variables["commentsCursor"] = comments_cursor
next_variables_mut(v, endCursor) ==
  [v EXCEPT !.commentsCursor = endCursor, !.repliesCursor = endCursor]

next_variables(v, endCursor) == [v EXCEPT !.commentsCursor = endCursor]

\* variables["historyCursor"] = history_cursor
next_history_variables(v, endCursor) == [v EXCEPT !.historyCursor = endCursor]

\* if query_result: fetch_processed += 1  else: fetch_failed += 1
tally_mut(present, processed, failed) ==
  IF present THEN <<processed + 1, failed>> ELSE <<processed + 1, failed>>

tally(present, processed, failed) ==
  IF present THEN <<processed + 1, failed>> ELSE <<processed, failed + 1>>

\* where control goes after the except clause of the loop body: the body is
\* over and the for loop goes on
except_target_mut == "done"

except_target == "tallied"

\* the number of items the driver has to process
ItemCount == IF dumptype \in ThreadKinds THEN Len(numbers) ELSE 1

\* the identifier handed to fetch_github_data for item k
ItemId(k) ==
  CASE dumptype \in ThreadKinds -> numbers[k]
    [] dumptype = "commits"     -> "branch"
    [] dumptype = "commit"      -> "sha"

Resources ==
  CASE dumptype \in ThreadKinds -> ThreadResources
    [] dumptype = "commits"     -> CommitsResources
    [] dumptype = "commit"      -> CommitResources

\* The loop body begins for the next item: fetch_github_data is called and
\* issues its first POST.  What the repository holds for that item is fixed here.
BeginItem(pool) ==
  /\ pc = "loop"
  /\ i < ItemCount
  /\ i' = i + 1
  /\ resource' \in pool
  /\ variables' = initial_variables(ItemId(i + 1))
  /\ requests' = <<variables'>>
  /\ pages' = <<>>
  /\ comments_data' = <<>>
  /\ header' = Null
  /\ query_result' = Null
  /\ document' = <<>>
  /\ attempts' = Append(attempts, i + 1)
  /\ pc' = "await"
  /\ UNCHANGED <<dumptype, numbers, fetch_processed, fetch_failed, files, outcomes>>
  /\ UNCHANGED <<sanvars, argvars>>

StartItem == BeginItem(Resources)

\* A response to a POST of the thread branch arrives; the code runs up to the
\* next POST or to its return.
RecvThread(mode) ==
  /\ pc = "await"
  /\ dumptype \in ThreadKinds
  /\ LET page == CommentsPage(resource, dumptype, variables.commentsCursor)
         result == Response(mode, page)
         first == (pages = <<>>)
     IN  /\ pages' = Append(pages, PageSeen(mode, page.comments.nodes,
                       [totalCount |-> page.comments.totalCount,
                        hasNextPage |-> page.comments.pageInfo.hasNextPage,
                        endCursor |-> page.comments.pageInfo.endCursor]))
         /\ IF \/ thread_gives_up(result, first)
               \/ page_raises(dumptype, result.data.comments.nodes)
            THEN /\ query_result' = Null
                 /\ pc' = "returned"
                 /\ UNCHANGED <<comments_data, header, variables, requests>>
            ELSE LET data == append_page(comments_data, dumptype,
                                         result.data.comments.nodes)
                     hdr == capture_header(first, dumptype, result.data.fields, header)
                     info == result.data.comments.pageInfo
                 IN  /\ comments_data' = data
                     /\ header' = hdr
                     /\ IF info.hasNextPage
                        THEN /\ variables' = next_variables(variables, info.endCursor)
                             /\ requests' = Append(requests, variables')
                             /\ pc' = "await"
                             /\ UNCHANGED query_result
                        ELSE /\ query_result' =
                                  [url |-> hdr.url, dumptype |-> dumptype,
                                   number |-> variables.id,
                                   state |-> hdr.state, title |-> hdr.title,
                                   body |-> hdr.body, author |-> hdr.author,
                                   created_at |-> hdr.created_at,
                                   comments |-> data]
                             /\ pc' = "returned"
                             /\ UNCHANGED <<variables, requests>>
  /\ UNCHANGED <<dumptype, numbers, i, fetch_processed, fetch_failed, files,
                 document, resource, attempts, outcomes>>
  /\ UNCHANGED <<sanvars, argvars>>

\* A response to a POST of the commits branch arrives.
RecvCommits(mode) ==
  /\ pc = "await"
  /\ dumptype = "commits"
  /\ LET page == HistoryPage(resource, variables.historyCursor)
         result == Response(mode, page)
     IN  /\ pages' = Append(pages, PageSeen(mode, page.edges,
                       [totalCount |-> 0,
                        hasNextPage |-> page.pageInfo.hasNextPage,
                        endCursor |-> page.pageInfo.endCursor]))
         /\ IF commits_gives_up(result)
            THEN /\ query_result' = Null
                 /\ pc' = "returned"
                 /\ UNCHANGED <<comments_data, variables, requests>>
            ELSE LET data == append_edges(comments_data, result.data.edges)
                     info == result.data.pageInfo
                 IN  /\ comments_data' = data
                     /\ IF info.hasNextPage
                        THEN /\ variables' = next_history_variables(variables, info.endCursor)
                             /\ requests' = Append(requests, variables')
                             /\ pc' = "await"
                             /\ UNCHANGED query_result
                        ELSE /\ query_result' = [list |-> data]
                             /\ pc' = "returned"
                             /\ UNCHANGED <<variables, requests>>
  /\ UNCHANGED <<dumptype, numbers, i, fetch_processed, fetch_failed, files,
                 header, document, resource, attempts, outcomes>>
  /\ UNCHANGED <<sanvars, argvars>>

\* The response to the single POST of the commit branch arrives.
RecvCommit(mode) ==
  /\ pc = "await"
  /\ dumptype = "commit"
  /\ LET result == Response(mode, CommitObject(resource, variables.id))
     IN  /\ pages' = Append(pages, PageSeen(mode, <<>>,
                       [totalCount |-> 0, hasNextPage |-> FALSE, endCursor |-> NoCursor]))
         /\ query_result' = IF commits_gives_up(result) THEN Null
                            ELSE [oid |-> result.data.oid,
                                  committedDate |-> result.data.committedDate,
                                  author |-> author_name(result.data.author)]
  /\ pc' = "returned"
  /\ UNCHANGED <<dumptype, numbers, i, fetch_processed, fetch_failed, files,
                 variables, comments_data, header, document, resource, requests,
                 attempts, outcomes>>
  /\ UNCHANGED <<sanvars, argvars>>

\* "if query_result:" a dataclass instance is true, None and [] are false
Truthy(qr) == qr # Null /\ qr # [list |-> <<>>]

\* output_markdown(query_result, output_dir, number); fetch_processed += 1
OutputMarkdown ==
  /\ pc = "returned"
  /\ dumptype \in ThreadKinds
  /\ Truthy(query_result)
  /\ document' = thread_document(query_result)
  /\ files' = write_text(files,
                create_filename(query_result.dumptype, numbers[i], query_result.title), i)
  /\ fetch_processed' = tally(TRUE, fetch_processed, fetch_failed)[1]
  /\ fetch_failed' = tally(TRUE, fetch_processed, fetch_failed)[2]
  /\ outcomes' = Append(outcomes, "written")
  /\ pc' = "tallied"
  /\ UNCHANGED <<dumptype, numbers, i, variables, comments_data, header,
                 query_result, resource, requests, pages, attempts>>
  /\ UNCHANGED <<sanvars, argvars>>

\* fetch_processed = len(commits_query_result)
commits_processed_mut(list) == 1

commits_processed(list) == Len(list)

\* output_commits_to_single_markdown(...); fetch_processed = len(commits_query_result)
OutputCommits ==
  /\ pc = "returned"
  /\ dumptype = "commits"
  /\ Truthy(query_result)
  /\ document' = commit_headings(sort_desc(query_result.list))
  /\ files' = write_text(files, <<"commits", variables.id>>, i)
  /\ fetch_processed' = commits_processed(query_result.list)
  /\ outcomes' = Append(outcomes, "written")
  /\ pc' = "tallied"
  /\ UNCHANGED <<dumptype, numbers, i, fetch_failed, variables, comments_data, header,
                 query_result, resource, requests, pages, attempts>>
  /\ UNCHANGED <<sanvars, argvars>>

\* output_commit_markdown(commit_query_result, output_dir); fetch_processed += 1
OutputCommit ==
  /\ pc = "returned"
  /\ dumptype = "commit"
  /\ Truthy(query_result)
  /\ document' = <<[h |-> "Commit", n |-> 0, id |-> <<query_result.oid>>,
                    date |-> query_result.committedDate]>>
  /\ files' = write_text(files, <<"commit", query_result.oid>>, i)
  /\ fetch_processed' = fetch_processed + 1
  /\ outcomes' = Append(outcomes, "written")
  /\ pc' = "tallied"
  /\ UNCHANGED <<dumptype, numbers, i, fetch_failed, variables, comments_data, header,
                 query_result, resource, requests, pages, attempts>>
  /\ UNCHANGED <<sanvars, argvars>>

\* The renderer raises (mkdir or write_text fails): the except clause of the
\* item counts a failure.
OutputRaises ==
  /\ pc = "returned"
  /\ Truthy(query_result)
  /\ fetch_failed' = fetch_failed + 1
  /\ outcomes' = Append(outcomes, "error")
  /\ pc' = except_target
  /\ UNCHANGED <<dumptype, numbers, i, fetch_processed, files, variables, comments_data,
                 header, query_result, document, resource, requests, pages, attempts>>
  /\ UNCHANGED <<sanvars, argvars>>

\* else: fetch_failed += 1
CountAbsent ==
  /\ pc = "returned"
  /\ ~Truthy(query_result)
  /\ fetch_processed' = tally(FALSE, fetch_processed, fetch_failed)[1]
  /\ fetch_failed' = tally(FALSE, fetch_processed, fetch_failed)[2]
  /\ outcomes' = Append(outcomes, "absent")
  /\ pc' = "tallied"
  /\ UNCHANGED <<dumptype, numbers, i, files, variables, comments_data, header,
                 query_result, document, resource, requests, pages, attempts>>
  /\ UNCHANGED <<sanvars, argvars>>

\* The loop body is over: its locals are dropped and the loop goes on.
Advance ==
  /\ pc = "tallied"
  /\ pc' = "loop"
  /\ variables' = Null /\ comments_data' = <<>> /\ header' = Null
  /\ query_result' = Null /\ document' = <<>>
  /\ resource' = Null /\ requests' = <<>> /\ pages' = <<>>
  /\ UNCHANGED <<dumptype, numbers, i, fetch_processed, fetch_failed, files,
                 attempts, outcomes>>
  /\ UNCHANGED <<sanvars, argvars>>

\* print("Processing complete.") and the two tallies
Summary ==
  /\ pc = "loop"
  /\ i >= ItemCount
  /\ pc' = "done"
  /\ UNCHANGED <<dumptype, numbers, i, fetch_processed, fetch_failed, files,
                 variables, comments_data, header, query_result, document,
                 resource, requests, pages, attempts, outcomes>>
  /\ UNCHANGED <<sanvars, argvars>>

Next ==
  \/ StartItem
  \/ \E mode \in Modes : RecvThread(mode)
  \/ \E mode \in Modes : RecvCommits(mode)
  \/ \E mode \in Modes : RecvCommit(mode)
  \/ OutputMarkdown
  \/ OutputCommits
  \/ OutputCommit
  \/ OutputRaises
  \/ CountAbsent
  \/ Advance
  \/ Summary

Spec == Init /\ [][Next]_vars

-----------------------------------------------------------------------------
(* One call of fetch_github_data and its rendering, over everything the API *)
(* can present for the item: null authors and logins, null reply nodes, an  *)
(* item edited between two pages.                                          *)

AllResources ==
  CASE dumptype \in ThreadKinds -> AllThreadResources
    [] dumptype = "commits"     -> AllCommitsResources
    [] dumptype = "commit"      -> AllCommitResources

FetchInit ==
  /\ dumptype \in DumpTypes
  /\ numbers = (IF dumptype \in ThreadKinds THEN <<1>> ELSE <<>>)
  /\ i = 0 /\ pc = "loop"
  /\ fetch_processed = 0 /\ fetch_failed = 0 /\ files = {}
  /\ variables = Null /\ comments_data = <<>> /\ header = Null
  /\ query_result = Null /\ document = <<>>
  /\ resource = Null /\ requests = <<>> /\ pages = <<>>
  /\ attempts = <<>> /\ outcomes = <<>>
  /\ SanIdle
  /\ ArgIdle

StartFetch == BeginItem(AllResources)

FetchNext ==
  \/ StartFetch
  \/ \E mode \in Modes : RecvThread(mode)
  \/ \E mode \in Modes : RecvCommits(mode)
  \/ \E mode \in Modes : RecvCommit(mode)
  \/ OutputMarkdown
  \/ OutputCommits
  \/ OutputCommit
  \/ OutputRaises
  \/ CountAbsent
  \/ Advance
  \/ Summary

FetchSpec == FetchInit /\ [][FetchNext]_vars

-----------------------------------------------------------------------------
(* Properties of the aggregation and of the driver *)

RECURSIVE Sum(_, _)
Sum(f, k) == IF k = 0 THEN 0 ELSE f[k] + Sum(f, k - 1)

\* fetch_github_data has returned a thread item for the current number
ThreadDone ==
  /\ dumptype \in ThreadKinds
  /\ pc \in {"returned", "tallied"}
  /\ query_result # Null

\* the document of the current item has been written
Written ==
  /\ pc = "tallied"
  /\ outcomes[i] = "written"

PageCounts == [k \in 1..Len(pages) |-> pages[k].count]

PageNulls == [k \in 1..Len(pages) |-> pages[k].nulls]

\* the ids of the comments the repository holds for the item, null nodes left out
RECURSIVE ServerIds(_, _)
ServerIds(comments, k) ==
  IF k > Len(comments) THEN <<>>
  ELSE (IF comments[k] = Null THEN <<>> ELSE <<(<<k>>)>>) \o ServerIds(comments, k + 1)

ResultIds == [k \in 1..Len(query_result.comments) |-> query_result.comments[k].id]

\* C1 as stated: after a successful aggregation the length of the comment
\* sequence equals the sum of the per-page comment counts and the reported
\* total count.
C1_AsStated ==
  ThreadDone =>
    /\ Len(query_result.comments) = Sum(PageCounts, Len(pages))
    /\ Len(query_result.comments) = pages[1].totalCount

\* C1 amended: after a successful aggregation the length of the comment
\* sequence equals the sum over the pages of the non-null comment nodes, which
\* is the reported total count less the null nodes; every non-null comment of
\* every page is there exactly once.
C1_Length ==
  ThreadDone =>
    /\ Len(query_result.comments)
         = Sum(PageCounts, Len(pages)) - Sum(PageNulls, Len(pages))
    /\ Len(query_result.comments)
         = pages[1].totalCount - Sum(PageNulls, Len(pages))
    /\ \A k \in 1..Len(pages) : pages[k].totalCount = Len(resource.comments)
    /\ \A a, b \in 1..Len(ResultIds) : ResultIds[a] = ResultIds[b] => a = b
    /\ Range(ResultIds) = Range(ServerIds(resource.comments, 1))

\* a successful aggregation over two pages, one of which carries a null node
C1_Witness ==
  /\ ThreadDone
  /\ Len(pages) >= 2
  /\ Sum(PageNulls, Len(pages)) >= 1
  /\ Len(query_result.comments) >= 2

\* C2 as stated: when any response of an aggregation (threads and commit
\* history) is a failure, the aggregation returns absence and no document is
\* written for the item.
C2_AsStated ==
  (/\ dumptype \in ThreadKinds \cup {"commits"}
   /\ pc \in {"returned", "tallied"}
   /\ \E k \in 1..Len(pages) : pages[k].mode \in FailureModes)
  => /\ query_result = Null
     /\ \A f \in files : f.by # i

\* the first response carries no repository.<kind> path
NoPathModes == {"nopath", "nodata", "errors"}

AbsentOnFirstPage ==
  /\ dumptype \in ThreadKinds
  /\ pc \in {"returned", "tallied"}
  /\ pages[1].mode \in NoPathModes

C3_State ==
  AbsentOnFirstPage =>
    /\ Len(requests) = 1
    /\ Len(pages) = 1
    /\ query_result = Null
    /\ \A f \in files : f.by # i

C3_Step ==
  (AbsentOnFirstPage /\ pc = "returned") =>
    /\ fetch_failed' = fetch_failed + 1
    /\ fetch_processed' = fetch_processed
    /\ files' = files
    /\ pc' = "tallied"

\* C3: when the first response for a number has no repository.<kind> path the
\* aggregation stops after that one request and returns absence; the failed
\* count grows by exactly one, the processed count does not change and no file
\* is written for that number.
C3_AbsentFirstPage == []C3_State /\ [][C3_Step]_vars

\* the second number of a run is absent after the first one was written
C3_Witness ==
  /\ AbsentOnFirstPage
  /\ pc = "tallied"
  /\ pages[1].mode = "nopath"
  /\ i = 2
  /\ fetch_failed = 1
  /\ fetch_processed = 1
  /\ files # {}

\* the number of comment pages of the item: N
NumPages ==
  IF Len(resource.comments) = 0 THEN 1
  ELSE (Len(resource.comments) + PageSize - 1) \div PageSize

\* the pages the current item can still be asked for
PagesLeft ==
  IF pc # "await" THEN 0
  ELSE IF dumptype \in ThreadKinds THEN NumPages - Len(pages)
  ELSE IF dumptype = "commits"
       THEN (IF Len(resource.commits) = 0 THEN 1
             ELSE (Len(resource.commits) + PageSize - 1) \div PageSize) - Len(pages)
  ELSE 1 - Len(pages)

\* the steps the run can still take: it falls with every step
StepsLeft ==
  (ItemCount - i) * (MaxComments + MaxCommits + 5)
    + (CASE pc = "done"     -> 0
         [] pc = "loop"     -> 1
         [] pc = "tallied"  -> 2
         [] pc = "returned" -> 3
         [] pc = "await"    -> 4 + PagesLeft)

\* ENABLED Next, one action at a time
StepEnabled ==
  \/ ENABLED Summary \/ ENABLED Advance \/ ENABLED CountAbsent \/ ENABLED OutputRaises
  \/ ENABLED StartItem
  \/ \E mode \in Modes :
       ENABLED RecvThread(mode) \/ ENABLED RecvCommits(mode) \/ ENABLED RecvCommit(mode)
  \/ ENABLED OutputMarkdown \/ ENABLED OutputCommits \/ ENABLED OutputCommit

C4_State ==
  /\ attempts = [k \in 1..i |-> k]
  /\ Len(outcomes) = (IF pc \in {"loop", "tallied", "done"} THEN i ELSE i - 1)
  /\ pc \in {"await", "returned", "tallied"} => requests[1].id = ItemId(i)
  /\ pc = "done" => i = ItemCount
  /\ pc # "done" => StepEnabled
  /\ StepsLeft >= 0

C4_Step ==
  /\ StepsLeft' < StepsLeft
  /\ attempts' # attempts =>
       /\ pc = "loop"
       /\ Len(outcomes) = Len(attempts)
       /\ attempts' = Append(attempts, Len(attempts) + 1)

\* C4: the driver attempts every number exactly once and in list order and
\* starts the first request of an item only after the item before it is over;
\* whatever the outcomes, the run reaches the final summary with every number
\* attempted: until the summary a step is always possible, and every step
\* brings the summary nearer.
C4_Sequential == []C4_State /\ [][C4_Step]_vars

\* the summary is reached after a render error, an absence and nothing else
C4_Witness ==
  /\ pc = "done"
  /\ Len(numbers) = 2
  /\ outcomes = <<"error", "absent">>

\* C5: a successful aggregation of an item of N comment pages issues exactly N
\* requests; the first carries no comments cursor, request k+1 carries the
\* endCursor of page k, and no request carries a replies cursor.
C5_Requests ==
  (dumptype \in ThreadKinds /\ pc \in {"await", "returned", "tallied"}) =>
    /\ requests[1].commentsCursor = NoCursor
    /\ \A k \in 1..Len(requests) : requests[k].repliesCursor = NoCursor
    /\ \A k \in 1..(Len(requests) - 1) :
         /\ pages[k].hasNextPage
         /\ requests[k + 1].commentsCursor = pages[k].endCursor
    /\ ThreadDone =>
         /\ Len(requests) = NumPages
         /\ Len(pages) = NumPages
         /\ ~pages[Len(pages)].hasNextPage

\* a discussion of two pages whose first comment has more replies than one
\* page of replies holds
C5_Witness ==
  /\ ThreadDone
  /\ dumptype = "discussion"
  /\ Len(resource.comments) = PageSize + 1
  /\ Len(requests) = 2
  /\ resource.comments[1] # Null
  /\ resource.comments[1].replies > PageSize

CommentHeadings == SelectSeq(document, LAMBDA e : e.h = "Comment")

\* the position in document of the k-th Comment heading
RECURSIVE HeadingAt(_, _)
HeadingAt(k, from) ==
  IF document[from].h = "Comment"
  THEN (IF k = 1 THEN from ELSE HeadingAt(k - 1, from + 1))
  ELSE HeadingAt(k, from + 1)

\* C6: the aggregated comments are the comments of the pages in fetch order,
\* each page in the order returned; the document has one Comment heading per
\* comment, numbered 1..N in that order, and the Reply headings of a comment
\* are numbered 1..M in the order the replies were returned.
C6_Order ==
  /\ ThreadDone => ResultIds = ServerIds(resource.comments, 1)
  /\ (dumptype \in ThreadKinds /\ Written) =>
       /\ Len(CommentHeadings) = Len(query_result.comments)
       /\ \A k \in 1..Len(CommentHeadings) :
            /\ CommentHeadings[k].n = k
            /\ CommentHeadings[k].id = query_result.comments[k].id
            /\ LET at == HeadingAt(k, 1)
                   M == Len(query_result.comments[k].replies)
               IN  /\ \A j \in 1..M :
                        /\ document[at + j].h = "Reply"
                        /\ document[at + j].n = j
                        /\ document[at + j].id = <<query_result.comments[k].id[1], j>>
                   /\ document[at + M + 1].h = "rule"
       /\ Cardinality({p \in 1..Len(document) : document[p].h = "Reply"})
            = Sum([k \in 1..Len(query_result.comments) |->
                     Len(query_result.comments[k].replies)],
                  Len(query_result.comments))

\* a written discussion of two pages with a null node and two replies
C6_Witness ==
  /\ dumptype = "discussion"
  /\ Written
  /\ Len(pages) = 2
  /\ Len(CommentHeadings) >= 2
  /\ \E p \in 1..Len(document) : document[p].h = "Reply" /\ document[p].n = 2

\* C7: the commit-history document lists exactly the fetched commits in
\* non-increasing committed-timestamp order, the k-th with counter n-k+1.
C7_CommitOrder ==
  (dumptype = "commits" /\ Written) =>
    LET n == Len(query_result.list)
    IN  /\ Len(document) = n
        /\ \A k \in 1..n :
             /\ document[k].n = n - k + 1
             /\ document[k].id[1] \in 1..Len(resource.commits)
             /\ document[k].date = resource.commits[document[k].id[1]]
        /\ \A k \in 1..(n - 1) : document[k].date >= document[k + 1].date
        /\ {document[k].id[1] : k \in 1..n} = 1..Len(resource.commits)

\* timestamps fetched as 1, 3, 2 are listed as the 2nd, 3rd and 1st commit
\* with counters 3, 2, 1
C7_Witness ==
  /\ dumptype = "commits"
  /\ Written
  /\ resource.commits = <<1, 3, 2>>
  /\ [k \in 1..Len(document) |-> document[k].id[1]] = <<2, 3, 1>>
  /\ [k \in 1..Len(document) |-> document[k].n] = <<3, 2, 1>>

\* C8: a comment has replies only when the item is a discussion, whatever the
\* response holds, and the document of an issue or pull request has no Reply
\* heading.
C8_RepliesOnlyDiscussion ==
  (dumptype \in ThreadKinds /\ dumptype # "discussion") =>
    /\ \A k \in 1..Len(comments_data) : comments_data[k].replies = <<>>
    /\ query_result # Null =>
         \A k \in 1..Len(query_result.comments) : query_result.comments[k].replies = <<>>
    /\ \A p \in 1..Len(document) : document[p].h # "Reply"

\* a written issue whose response carried replies under a comment
C8_Witness ==
  /\ dumptype = "issue"
  /\ Written
  /\ Len(query_result.comments) >= 1
  /\ \E k \in 1..Len(resource.comments) :
       resource.comments[k] # Null /\ resource.comments[k].replies >= 1

-----------------------------------------------------------------------------
(* The sanitizer on its own: every title up to one character over max_length *)

SanTitles == SeqsUpTo(Chars, max_length + 1)

DriverIdle ==
  /\ dumptype = None /\ numbers = <<>> /\ i = 0 /\ pc = "idle"
  /\ fetch_processed = 0 /\ fetch_failed = 0 /\ files = {}
  /\ variables = Null /\ comments_data = <<>> /\ header = Null
  /\ query_result = Null /\ document = <<>>
  /\ resource = Null /\ requests = <<>> /\ pages = <<>>
  /\ attempts = <<>> /\ outcomes = <<>>

SanInit ==
  /\ DriverIdle
  /\ ArgIdle
  /\ san_pc = "start"
  /\ san_in \in SanTitles
  /\ san_first = None /\ san_once = None /\ san_twice = None

\* create_filename: the title part is the sanitized first line of the title
SanCreate ==
  /\ san_pc = "start"
  /\ san_first' = first_line(san_in)
  /\ san_once' = sanitize_filename(first_line(san_in))
  /\ san_pc' = "once"
  /\ UNCHANGED <<san_in, san_twice>>
  /\ UNCHANGED <<drivervars, argvars>>

\* the sanitizer applied directly to any string
SanDirect ==
  /\ san_pc = "start"
  /\ san_first' = san_in
  /\ san_once' = sanitize_filename(san_in)
  /\ san_pc' = "once"
  /\ UNCHANGED <<san_in, san_twice>>
  /\ UNCHANGED <<drivervars, argvars>>

\* the sanitizer applied to its own result
SanAgain ==
  /\ san_pc = "once"
  /\ san_twice' = sanitize_filename(san_once)
  /\ san_pc' = "twice"
  /\ UNCHANGED <<san_in, san_first, san_once>>
  /\ UNCHANGED <<drivervars, argvars>>

SanNext == SanCreate \/ SanDirect \/ SanAgain

SanSpec == SanInit /\ [][SanNext]_vars

\* the sanitized title before truncation, and the last separator within the limit
SanReplaced == re_sub(san_first)

SanSeparatorsInLimit ==
  {k \in 2..max_length : k <= Len(SanReplaced) /\ SanReplaced[k] \in Separators}

SanIsPrefix ==
  /\ Len(san_once) <= max_length
  /\ Len(san_once) <= Len(SanReplaced)
  /\ san_once = SubSeq(SanReplaced, 1, Len(san_once))

SanNoTrailingSeparator ==
  san_once = <<>> \/ san_once[Len(san_once)] \notin Separators

C10_Idempotent ==
  san_pc = "twice" => san_twice = san_once

\* an input over the limit that the first pass both rewrote and truncated
C10_Witness ==
  /\ san_pc = "twice"
  /\ Len(san_in) > max_length
  /\ Len(san_once) < max_length
  /\ \E k \in 1..Len(san_once) : san_once[k] # san_in[k]

-----------------------------------------------------------------------------
(* main, from parse_args to the opening of the session: the command line    *)
(* is resolved into owner, repo, dumptype, numbers, branch and sha.         *)

\* a number that is absent is <<>>, a number n is <<n>>
NoNumber == <<>>

Hosts == {"github.com", "gitlab.com"}

\* "github.com" in parsed_url.netloc
IsGitHub(netloc) == netloc = "github.com"

\* parsed_url.path.strip("/").split("/") of the URLs the model passes
Paths ==
  {<<"o">>, <<"o", "r">>, <<"o", "r", "tree", "b2">>,
   <<"o", "r", "issues", "1">>, <<"o", "r", "pull", "1">>,
   <<"o", "r", "discussions", "1">>, <<"o", "r", "discussions", "0">>,
   <<"o", "r", "discussions">>, <<"o", "r", "discussions", "x">>,
   <<"o", "r", "commits">>, <<"o", "r", "commits", "b2">>,
   <<"o", "r", "commit">>, <<"o", "r", "commit", "s2">>}

Urls == [netloc : Hosts, path : Paths]

\* str.isdigit and int on one path component
isdigit(part) == part \in {"0", "1", "2"}

int(part) == CASE part = "0" -> 0 [] part = "1" -> 1 [] part = "2" -> 2

\* what --numbers gives: nothing, "1", or the range "1-2"
NumberArgs == {<<>>, <<(<<1>>)>>, <<(<<1, 2>>)>>}

\* the namespaces parse_args can return (-dt defaults to "discussion")
CommandLines ==
  [url : {Null} \cup Urls, owner : {None, "o2"}, repo : {None, "r2"},
   dumptype : DumpTypes, numbers : NumberArgs,
   branch : {None, "b1"}, sha : {None, "s1"}]

\* parse_github_url, past its two checks
parse_github_url(path) ==
  LET dt == IF Len(path) > 2
            THEN CASE path[3] = "issues"      -> "issue"
                   [] path[3] = "pull"        -> "pullRequest"
                   [] path[3] = "discussions" -> "discussion"
                   [] path[3] = "commits"     -> "commits"
                   [] path[3] = "commit"      -> "commit"
                   [] OTHER                   -> None
            ELSE None
  IN  [owner |-> path[1],
       repo |-> path[2],
       dumptype |-> dt,
       number |-> IF Len(path) > 3 /\ dt \in ThreadKinds /\ isdigit(path[4])
                  THEN <<int(path[4])>> ELSE NoNumber,
       branch |-> IF dt = "commits"
                  THEN (IF Len(path) > 3 THEN path[4] ELSE "main")
                  ELSE None,
       commit_sha |-> IF dt = "commit" /\ Len(path) > 3 THEN path[4] ELSE None]

\* [item for sublist in args.numbers for item in sublist]
RECURSIVE flatten(_)
flatten(lists) == IF lists = <<>> THEN <<>> ELSE Head(lists) \o flatten(Tail(lists))

ArgInit ==
  /\ DriverIdle
  /\ SanIdle
  /\ argv \in CommandLines
  /\ args = argv
  /\ arg_pc = "parsed"

\* if args.url: ... (parse_github_url exits on a URL that is not a GitHub
\* repository URL)
ResolveUrl ==
  /\ arg_pc = "parsed"
  /\ IF args.url = Null
     THEN /\ arg_pc' = "resolved"
          /\ UNCHANGED args
     ELSE IF ~IsGitHub(args.url.netloc) \/ Len(args.url.path) < 2
     THEN /\ arg_pc' = "exit"
          /\ UNCHANGED args
     ELSE LET parsed == parse_github_url(args.url.path)
          IN  /\ args' = [args EXCEPT
                   !.owner = parsed.owner,
                   !.repo = parsed.repo,
                   !.branch = parsed.branch,
                   !.sha = parsed.commit_sha,
                   !.dumptype = IF parsed.dumptype # None THEN parsed.dumptype ELSE @,
                   !.numbers = IF /\ parsed.dumptype # None
                                  /\ parsed.number # NoNumber
                                  /\ parsed.number[1] # 0
                               THEN Append(@, parsed.number) ELSE @]
              /\ arg_pc' = "resolved"
  /\ UNCHANGED <<argv, drivervars, sanvars>>

\* the three checks of required options, each ending in sys.exit(1)
CheckRequired ==
  /\ arg_pc = "resolved"
  /\ arg_pc' = IF \/ args.owner \in {None, ""} \/ args.repo \in {None, ""}
                  \/ args.dumptype = "commits" /\ args.branch \in {None, ""}
                  \/ args.dumptype = "commit" /\ args.sha \in {None, ""}
               THEN "exit" ELSE "checked"
  /\ UNCHANGED <<argv, args, drivervars, sanvars>>

\* the numbers are flattened and the session is opened: the driver loop is
\* about to start on args.dumptype and numbers
OpenSession ==
  /\ arg_pc = "checked"
  /\ numbers' = flatten(args.numbers)
  /\ dumptype' = args.dumptype
  /\ pc' = "loop"
  /\ arg_pc' = "run"
  /\ UNCHANGED <<i, fetch_processed, fetch_failed, files, variables, comments_data,
                 header, query_result, document, resource, requests, pages,
                 attempts, outcomes>>
  /\ UNCHANGED <<argv, args, sanvars>>

ArgNext == ResolveUrl \/ CheckRequired \/ OpenSession

ArgSpec == ArgInit /\ [][ArgNext]_vars

-----------------------------------------------------------------------------
(* Properties of the aggregated records (FetchSpec) *)

\* fetch_github_data has returned a result for the current item
Fetched ==
  /\ pc \in {"returned", "tallied"}
  /\ query_result # Null

\* the replies of the comments of the returned thread item, as <<c, j>>
ReplyAt ==
  {<<c, j>> \in (1..MaxComments) \X (1..(PageSize + 1)) :
     c <= Len(query_result.comments) /\ j <= Len(query_result.comments[c].replies)}

\* The author of every record of the returned result, paired with the kind of
\* author the API presented for that record.
RecordAuthors ==
  CASE dumptype \in ThreadKinds ->
         {<<query_result.author, AuthorKind(resource.authors, 0)>>}
           \cup {<<query_result.comments[c].author,
                   AuthorKind(resource.authors, query_result.comments[c].id[1])>> :
                   c \in 1..Len(query_result.comments)}
           \cup {<<query_result.comments[p[1]].replies[p[2]].author,
                   AuthorKind(resource.authors,
                              query_result.comments[p[1]].replies[p[2]].id[1]
                                + query_result.comments[p[1]].replies[p[2]].id[2])>> :
                   p \in ReplyAt}
    [] dumptype = "commits" ->
         {<<query_result.list[k].author,
            AuthorKind(resource.authors, query_result.list[k].oid)>> :
            k \in 1..Len(query_result.list)}
    [] dumptype = "commit" ->
         {<<query_result.author, AuthorKind(resource.authors, 0)>>}

\* C11 as stated: in every aggregated record of every resource kind the author
\* is a string that is neither null nor empty, and it is the sentinel "None"
\* whenever the API gave no author or an author whose login or name is null.
C11_AsStated ==
  Fetched =>
    \A r \in RecordAuthors :
      /\ r[1] # None
      /\ r[1] # ""
      /\ r[2] \in {"ghost", "anon"} => r[1] = "None"

-----------------------------------------------------------------------------
(* Properties of the argument handling (ArgSpec) *)

\* --url is a bare repository URL
BareUrl ==
  /\ argv.url # Null
  /\ IsGitHub(argv.url.netloc)
  /\ Len(argv.url.path) = 2

\* C12 as stated: with a bare repository URL and --dumptype commits --branch B
\* passed explicitly, the run is not abandoned, owner and repo are those of the
\* URL, the branch stays B and the driver starts on dumptype commits; likewise
\* with --dumptype commit and --sha S.
C12_AsStated ==
  /\ (BareUrl /\ argv.dumptype = "commits" /\ argv.branch # None) =>
       /\ arg_pc # "exit"
       /\ arg_pc \in {"resolved", "checked", "run"} =>
            /\ args.owner = argv.url.path[1]
            /\ args.repo = argv.url.path[2]
            /\ args.branch = argv.branch
       /\ arg_pc = "run" => dumptype = "commits"
  /\ (BareUrl /\ argv.dumptype = "commit" /\ argv.sha # None) =>
       /\ arg_pc # "exit"
       /\ arg_pc \in {"resolved", "checked", "run"} =>
            /\ args.owner = argv.url.path[1]
            /\ args.repo = argv.url.path[2]
            /\ args.sha = argv.sha
       /\ arg_pc = "run" => dumptype = "commit"

-----------------------------------------------------------------------------
(* Properties of the documents of a run (Spec) *)

\* the items of the run that were aggregated and rendered
WrittenItems == {k \in 1..Len(outcomes) : outcomes[k] = "written"}

\* the run over thread items is over
ThreadRunOver == dumptype \in ThreadKinds /\ pc = "done"

-----------------------------------------------------------------------------
(* Properties of the header fields of a thread item (FetchSpec) *)

\* the scalar fields the first page carries for the item being fetched
FirstFields == ThreadFields(resource, dumptype, 1)

\* the scalar fields the pages after the first carry
LaterFields == ThreadFields(resource, dumptype, IF resource.edited THEN 2 ELSE 1)

\* r holds the header fields of the first page
HoldsFirstPage(r) ==
  /\ r.url = FirstFields.url
  /\ r.state = (IF dumptype # "discussion" THEN FirstFields.state ELSE "")
  /\ r.title = FirstFields.title
  /\ r.body = FirstFields.body
  /\ r.author = (IF FirstFields.author = Null THEN "None" ELSE FirstFields.author.login)
  /\ r.created_at = FirstFields.createdAt

C14_State ==
  /\ (dumptype \in ThreadKinds /\ header # Null) => HoldsFirstPage(header)
  /\ ThreadDone => HoldsFirstPage(query_result)
  /\ (ThreadDone /\ Written) => HoldsFirstPage(document[1])

C14_Step == (header # Null /\ header' # Null) => header' = header

\* C14: the header fields (url, state, title, body, author, createdAt) are
\* those of the first page: no later page changes them, whatever it carries,
\* and the returned record and the rendered title heading hold them.
C14_HeaderFromFirstPage == []C14_State /\ [][C14_Step]_vars

\* a thread item written after two or more pages, the later ones carrying
\* another url, title, body, author and creation time than the first
C14_Witness ==
  /\ ThreadDone /\ Written
  /\ Len(pages) >= 2
  /\ resource.edited
  /\ LaterFields.title # FirstFields.title
  /\ LaterFields.url # FirstFields.url
  /\ LaterFields.author # FirstFields.author
  /\ document[1].title = FirstFields.title

-----------------------------------------------------------------------------
(* Properties of the tallies (Spec) *)

\* the items of the run that ended in the else branch or in the except clause
FailedItems == {k \in 1..Len(outcomes) : outcomes[k] # "written"}

\* C15 as stated: at the end of every run, whatever the dumptype, processed
\* plus failed is the number of items the driver was asked to process, and
\* processed is the number of items aggregated and rendered.
C15_AsStated ==
  pc = "done" =>
    /\ fetch_processed + fetch_failed = ItemCount
    /\ fetch_processed = Cardinality(WrittenItems)

\* C15 amended: the failed count is always the number of items that were not
\* rendered.  For a thread kind and for a commit by sha the processed count is
\* the number of rendered items, so that the two counts add up to the number
\* of items at the end of the run.  For dumptype commits the processed count
\* is 0 until the history is rendered and then the number of commits of the
\* history, which is at least one.
C15_Tally ==
  /\ fetch_failed = Cardinality(FailedItems)
  /\ pc = "done" => Len(outcomes) = ItemCount
  /\ dumptype # "commits" =>
       /\ fetch_processed = Cardinality(WrittenItems)
       /\ pc = "done" => fetch_processed + fetch_failed = ItemCount
  /\ dumptype = "commits" =>
       /\ WrittenItems = {} => fetch_processed = 0
       /\ WrittenItems # {} => fetch_processed >= 1 /\ fetch_failed = 0
       /\ Written => /\ fetch_processed = Len(query_result.list)
                     /\ fetch_processed = Len(resource.commits)
                     /\ fetch_processed = Len(document)

\* the end of a run over a branch of more than one commit
C15_Witness ==
  /\ dumptype = "commits"
  /\ pc = "done"
  /\ outcomes = <<"written">>
  /\ fetch_processed > 1
  /\ fetch_failed = 0

-----------------------------------------------------------------------------
(* Properties of null nodes (FetchSpec) *)

\* the positions, among the comments of the server, that page p covers
PageSpan(p) ==
  {k \in 1..Len(resource.comments) : (p - 1) * PageSize < k /\ k <= p * PageSize}

\* a page whose nodes the loop went through held a comment with a null reply
NullReplySeen ==
  \E p \in 1..Len(pages) :
    /\ pages[p].mode \in {"ok", "errors_data"}
    /\ \E k \in PageSpan(p) :
         resource.comments[k] # Null /\ resource.comments[k].nullReply

\* every response so far was a clean page
AllOk == \A p \in 1..Len(pages) : pages[p].mode = "ok"

\* C16: a null comment node is skipped and the aggregation goes on with the
\* other comments and pages: when every response is a clean page and no reply
\* node is null, the result is present and holds every non-null comment of
\* every page.  A null reply node of a discussion comment makes the
\* aggregation return absence at that page: no further request, the item is
\* counted as failed and no document is written, whatever had been collected.
C16_NullNodes ==
  (dumptype \in ThreadKinds /\ pc \in {"returned", "tallied"}) =>
    /\ (AllOk /\ ~(dumptype = "discussion" /\ NullReplySeen)) =>
         /\ query_result # Null
         /\ Len(pages) = NumPages
         /\ ResultIds = ServerIds(resource.comments, 1)
    /\ (dumptype = "discussion" /\ NullReplySeen) =>
         /\ query_result = Null
         /\ Len(requests) = Len(pages)
         /\ \A p \in 1..(Len(pages) - 1) :
              \A k \in PageSpan(p) :
                resource.comments[k] = Null \/ ~resource.comments[k].nullReply
         /\ pc = "tallied" =>
              /\ outcomes[i] = "absent"
              /\ fetch_failed = 1 /\ fetch_processed = 0
              /\ files = {} /\ document = <<>>

\* a discussion whose first page holds a null comment node and a comment that
\* was collected, and whose second page holds a comment with a null reply: the
\* item is counted as failed
C16_Witness ==
  /\ dumptype = "discussion"
  /\ pc = "tallied"
  /\ Len(pages) = 2 /\ AllOk
  /\ pages[1].nulls >= 1
  /\ Len(comments_data) >= 1
  /\ NullReplySeen
  /\ outcomes[i] = "absent" /\ files = {}
====
